---- MODULE Spec2Model ----
(***************************************************************************)
(* A model of the scriber Python SDK: the Event Client (scriber/api.py),   *)
(* the transport selector and the four HTTP transports                     *)
(* (scriber/http_client.py) and the exception classes (scriber/error.py).  *)
(*                                                                         *)
(* The SDK is Python 2 code (urllib2, dict.iteritems, basestring), so the  *)
(* model is of a Python 2 interpreter: sys.version_info < (3, 0).          *)
(*                                                                         *)
(* Python values: None is the empty tuple and a value held where None may  *)
(* also be held is a one-element tuple, so that "is None" is a comparison  *)
(* of tuples.  A dict is a function from its keys; a list is a sequence.   *)
(***************************************************************************)
EXTENDS Integers, Sequences, FiniteSets, TLC

\* ------------------------------------------------------------------ bounds
\* the longest "requests" version, in dot-separated components
MaxVerLen == 3
\* the longest event sequence handed to record_events
MaxEvents == 2
\* the number of record_event / record_events invocations of a run
MaxCalls == 2

None == <<>>
Some(v) == <<v>>

\* ----------------------------------------------------- inputs of the model
UserIds == {"u1", "u2"}
Labels == {"x", "signup"}
Timestamps == {0, 1447286400}
Bodies == {"", "{\"detail\": \"not found\"}"}
\* status codes a server may answer with: the success code, another 2xx
\* code and an error code
Statuses == {200, 201, 404}
VersionComponents == {"0", "8", "rc1"}
Versions == UNION {[1..n -> VersionComponents] : n \in 1..MaxVerLen}

\* what is installed in the host environment: the App Engine SDK, pycurl,
\* and requests at some version (None: not installed)
Environments ==
    [google_appengine : BOOLEAN,
     pycurl : BOOLEAN,
     requests : {None} \cup {Some(v) : v \in Versions}]
\* the same with requests absent, at 0.8.0 or at 0.8.8
FewEnvironments ==
    [google_appengine : BOOLEAN,
     pycurl : BOOLEAN,
     requests : {None, Some(<<"0", "8", "0">>), Some(<<"0", "8", "8">>)}]

\* --------------------------------------------------------------- api.py
SCRIBER_URL == "https://scriber.io/api/"
PLATFORM == "Web"
\* scriber.__version__ (scriber/__init__.py)
ScriberVersion == "0.1.0"
SDK_VERSION == "scriberpy-" \o ScriberVersion

EVENT_TYPES ==
    <<"app_start", "app_background", "app_foreground", "app_terminate",
      "record_event", "record_purchase", "record_original_purchase_receipt",
      "set_user_info", "logout">>

\* ------------------------------------------------- module-level detection
\* int(i) of one version component: defined on strings of digits only
IsIntLiteral(s) == s \in {"0", "8"}
IntOf(s) == CASE s = "0" -> 0 [] s = "8" -> 8

\* major, minor, patch = [int(i) for i in version.split('.')] raises
\* (ValueError) unless there are exactly three components, all integers
VersionParseRaises(v) ==
    \/ \E i \in 1..Len(v) : ~IsIntLiteral(v[i])
    \/ Len(v) # 3

\* Python's a < b on tuples of integers: the first differing element decides
RECURSIVE TupleLess(_, _)
TupleLess(a, b) ==
    IF a = <<>> THEN b # <<>>
    ELSE IF b = <<>> THEN FALSE
    ELSE IF Head(a) # Head(b) THEN Head(a) < Head(b)
    ELSE TupleLess(Tail(a), Tail(b))

\* the module global "requests" after import: truthy iff the library is
\* importable and its version is not parsed as lower than 0.8.8
DetectRequests(installed) ==
    IF installed = None THEN FALSE
    ELSE IF VersionParseRaises(installed[1]) THEN TRUE
    ELSE IF TupleLess([i \in 1..3 |-> IntOf(installed[1][i])], <<0, 8, 8>>)
         THEN FALSE
         ELSE TRUE

DetectPycurl(installed) == installed
DetectUrlfetch(installed) == installed

\* -------------------------------------------------------------- error.py
\* bytes that are not valid UTF-8 (none of Bodies is)
Utf8Decodable(b) == b # "\\xff"
Utf8Failure ==
    "<Could not decode body as utf-8. Please report to support@scriber.io>"

\* an exception object: its class and the attributes ScriberError sets.
\* Exceptions of other classes carry the message only.
Exc(cls, message) ==
    [cls |-> cls, message |-> message,
     http_body |-> None, http_status |-> None, json_body |-> None]

ScriberError(cls, message, http_body, http_status, json_body) ==
    [cls |-> cls, message |-> message,
     http_body |->
        IF http_body # None /\ http_body[1] # ""
        THEN IF Utf8Decodable(http_body[1]) THEN http_body
             ELSE Some(Utf8Failure)
        ELSE http_body,
     http_status |-> http_status, json_body |-> json_body]

APIError(message) == ScriberError("APIError", message, None, None, None)
APIConnectionError(message) ==
    ScriberError("APIConnectionError", message, None, None, None)

\* the class hierarchy of the exceptions the libraries raise
Base(cls) ==
    CASE cls = "ConnectionError" -> "RequestException"
      [] cls = "RequestException" -> "IOError"
      [] cls = "InvalidURLError" -> "urlfetch.Error"
      [] cls = "DownloadError" -> "urlfetch.Error"
      [] cls = "ResponseTooLargeError" -> "urlfetch.Error"
      [] cls = "HTTPError" -> "URLError"
      [] cls = "URLError" -> "IOError"
      [] cls = "BadStatusLine" -> "HTTPException"
      [] OTHER -> "Exception"

RECURSIVE IsInstance(_, _)
IsInstance(cls, of) ==
    IF cls = of THEN TRUE
    ELSE IF cls = "Exception" THEN FALSE
    ELSE IsInstance(Base(cls), of)

\* what a function call does: return a value or raise an exception
NoExc == Exc("", "")
Return(value) == [kind |-> "return", value |-> value, exc |-> NoExc]
Raise(e) == [kind |-> "raise", value |-> None, exc |-> e]

\* ------------------------------------------------------- http_client.py
CA_BUNDLE == "scriber/data/ca-certificates.crt"

\* str.upper() on the method names in use
Upper(method) ==
    CASE method = "post" -> "POST"
      [] method = "get" -> "GET"
      [] OTHER -> method

NetworkError(msg, err) == msg \o "\n\n(Network error: " \o err \o ")"

\* What the underlying HTTP library does with one call: it answers
\* (content, status_code) or raises an exception of class exc, with
\* str(e) = detail and, for pycurl.error, e[0] = errno.
Response(content, status_code) ==
    [kind |-> "response", exc |-> "", errno |-> "", detail |-> "",
     content |-> content, status_code |-> status_code]
Failure(exc, errno, detail) ==
    [kind |-> "raise", exc |-> exc, errno |-> errno, detail |-> detail,
     content |-> "", status_code |-> 0]

HTTPClient(cls, id) == [cls |-> cls, id |-> id, verify_ssl_certs |-> TRUE]

\* ---- RequestsClient
RequestsClient_handle_request_error(e) ==
    LET msg ==
          IF IsInstance(e.cls, "RequestException")
          THEN "Unexpected error communicating with Scriber.  If this problem\n"
               \o "persists, let us know at support@scriber.io."
          ELSE "Unexpected error communicating with Scriber. It looks like there's\n"
               \o "probably a configuration issue locally.  If this problem persists, let\n"
               \o "us know at support@scriber.io."
        err ==
          IF IsInstance(e.cls, "RequestException")
          THEN e.cls \o ": " \o e.message
          ELSE "A " \o e.cls \o " was raised" \o
               (IF e.message # ""
                THEN " with error message " \o e.message
                ELSE " with no error message")
    IN Raise(APIConnectionError(NetworkError(msg, err)))

RequestsClient_request(self, method, url, headers, post_data, lib) ==
    LET call ==
          [library |-> "requests.request", method |-> method, url |-> url,
           headers |-> headers, body |-> Some(post_data), timeout |-> 80,
           verify |-> IF self.verify_ssl_certs THEN Some(CA_BUNDLE) ELSE None]
        \* the inner handler re-raises a TypeError with a longer message
        e == IF lib.exc = "TypeError"
             THEN Exc("TypeError",
                      "Warning: It looks like your installed version of the "
                      \o "\"requests\" library is not compatible with Scriber's "
                      \o "usage thereof. (HINT: The most likely cause is that "
                      \o "your \"requests\" library is out of date. You can fix "
                      \o "that by running \"pip install -U requests\".) The "
                      \o "underlying error was: " \o lib.detail)
             ELSE Exc(lib.exc, lib.detail)
    IN [sent |-> <<call>>,
        result |->
          IF lib.kind = "response"
          THEN Return(<<lib.content, lib.status_code>>)
          ELSE IF IsInstance(e.cls, "Exception")
               THEN RequestsClient_handle_request_error(e)
               ELSE Raise(e)]

\* ---- UrlFetchClient
UrlFetchClient_handle_request_error(e, url) ==
    LET msg ==
          IF IsInstance(e.cls, "InvalidURLError")
          THEN "The Scriber library attempted to fetch an invalid URL\n('"
               \o url \o "'). This is likely due to a bug in the\n"
               \o "Scriber Python bindings. Please let us know at support@scriber.io."
          ELSE IF IsInstance(e.cls, "DownloadError")
          THEN "There was a problem retrieving data from Scriber."
          ELSE IF IsInstance(e.cls, "ResponseTooLargeError")
          THEN "There was a problem receiving all of your data from Scriber.  This is\n"
               \o "likely due to a bug in Scriber. Please let us know at\n"
               \o "support@scriber.io."
          ELSE "Unexpected error communicating with Scriber. If this problem persists,\n"
               \o "let us know at support@scriber.io."
    IN Raise(APIConnectionError(NetworkError(msg, e.message)))

UrlFetchClient_request(self, method, url, headers, post_data, lib) ==
    LET call ==
          [library |-> "urlfetch.fetch", method |-> method, url |-> url,
           headers |-> headers, body |-> Some(post_data), deadline |-> 55,
           validate_certificate |-> self.verify_ssl_certs]
        e == Exc(lib.exc, lib.detail)
    IN [sent |-> <<call>>,
        result |->
          IF lib.kind = "response"
          THEN Return(<<lib.content, lib.status_code>>)
          ELSE IF IsInstance(e.cls, "urlfetch.Error")
               THEN UrlFetchClient_handle_request_error(e, url)
               ELSE Raise(e)]

\* ---- PycurlClient
PycurlClient_handle_request_error(e0, e1) ==
    LET msg ==
          IF e0 \in {"E_COULDNT_CONNECT", "E_COULDNT_RESOLVE_HOST",
                     "E_OPERATION_TIMEOUTED"}
          THEN "Could not connect to Scriber.  Please check your internet connection\n"
               \o "and try again.  If this problem persists, you should check Scriber's\n"
               \o "service status at https://twitter.com/scriber, or let us know at\n"
               \o "support@scriber.io."
          ELSE IF e0 \in {"E_SSL_CACERT", "E_SSL_PEER_CERTIFICATE"}
          THEN "Could not verify Scriber's SSL certificate.  Please make sure that\n"
               \o "your network is not intercepting certificates.  If this problem\n"
               \o "persists, let us know at support@scriber.io."
          ELSE "Unexpected error communicating with Scriber. If this problem persists,\n"
               \o "let us know at support@scriber.io."
    IN Raise(APIConnectionError(NetworkError(msg, e1)))

\* the options set on the curl handle: POSTFIELDS (the request body) is set
\* only on the branch method == 'post'
PycurlMethodOptions(method, post_data) ==
    IF method = "get"
    THEN [verb |-> "HTTPGET", body |-> None]
    ELSE IF method = "post"
    THEN [verb |-> "POST", body |-> Some(post_data)]
    ELSE [verb |-> Upper(method), body |-> None]

PycurlClient_request(self, method, url, headers, post_data, lib) ==
    LET opts == PycurlMethodOptions(method, post_data)
        call ==
          [library |-> "pycurl.perform", method |-> opts.verb, url |-> url,
           headers |-> {k \o ": " \o headers[k] : k \in DOMAIN headers},
           body |-> opts.body, connecttimeout |-> 30, timeout |-> 80,
           cainfo |-> IF self.verify_ssl_certs THEN Some(CA_BUNDLE) ELSE None]
    IN [sent |-> <<call>>,
        result |->
          IF lib.kind = "response"
          THEN Return(<<lib.content, lib.status_code>>)
          ELSE IF IsInstance(lib.exc, "pycurl.error")
               THEN PycurlClient_handle_request_error(lib.errno, lib.detail)
               ELSE Raise(Exc(lib.exc, lib.detail))]

\* ---- Urllib2Client
Urllib2Client_handle_request_error(e) ==
    Raise(APIConnectionError(NetworkError(
        "Unexpected error communicating with Scriber. If this problem persists,\n"
        \o "let us know at support@scriber.io.", e.message)))

\* the except clauses of Urllib2Client.request, tried in order
Urllib2ExceptURLErrorFirst(lib) ==
    LET e == Exc(lib.exc, lib.detail)
    IN IF IsInstance(e.cls, "URLError") \/ IsInstance(e.cls, "ValueError")
       THEN Urllib2Client_handle_request_error(e)
       ELSE IF IsInstance(e.cls, "HTTPError")
       THEN Return(<<lib.content, lib.status_code>>)
       ELSE Raise(e)
Urllib2Except(lib) ==
    LET e == Exc(lib.exc, lib.detail)
    IN IF IsInstance(e.cls, "HTTPError")
       THEN Return(<<lib.content, lib.status_code>>)
       ELSE IF IsInstance(e.cls, "URLError") \/ IsInstance(e.cls, "ValueError")
       THEN Urllib2Client_handle_request_error(e)
       ELSE Raise(e)

Urllib2Client_request(self, method, url, headers, post_data, lib) ==
    LET call ==
          [library |-> "urllib2.urlopen",
           \* Request.get_method: overridden unless method is 'get' or
           \* 'post'; a Request that has data is a POST by default
           method |-> IF method \notin {"get", "post"} THEN Upper(method)
                      ELSE "POST",
           url |-> url, headers |-> headers, body |-> Some(post_data)]
    IN [sent |-> <<call>>,
        result |->
          IF lib.kind = "response"
          THEN Return(<<lib.content, lib.status_code>>)
          ELSE Urllib2Except(lib)]

\* the outcomes of one call into each library.  urlopen answers only with
\* a 2xx status: any other status is raised as HTTPError, which carries the
\* status code and the body of the error response.
LibOutcomes(cls) ==
    CASE cls = "RequestsClient" ->
           {Response(b, s) : b \in Bodies, s \in Statuses}
           \cup {Failure("ConnectionError", "", "Name or service not known"),
                 Failure("ValueError", "", ""),
                 Failure("TypeError", "", "unexpected keyword argument")}
      [] cls = "UrlFetchClient" ->
           {Response(b, s) : b \in Bodies, s \in Statuses}
           \cup {Failure("InvalidURLError", "", ""),
                 Failure("DownloadError", "", "DNS lookup failed"),
                 Failure("ResponseTooLargeError", "", ""),
                 Failure("DeadlineExceededError", "", "")}
      [] cls = "PycurlClient" ->
           {Response(b, s) : b \in Bodies, s \in Statuses}
           \cup {Failure("pycurl.error", "E_COULDNT_RESOLVE_HOST",
                         "Could not resolve host"),
                 Failure("pycurl.error", "E_SSL_CACERT", "SSL certificate problem"),
                 Failure("pycurl.error", "E_GOT_NOTHING", "Empty reply")}
      [] cls = "Urllib2Client" ->
           {Response(b, s) : b \in Bodies, s \in {t \in Statuses : t \in 200..299}}
           \cup {[kind |-> "raise", exc |-> "HTTPError", errno |-> "",
                  detail |-> "HTTP Error", content |-> b, status_code |-> s]
                 : b \in Bodies, s \in {t \in Statuses : t \notin 200..299}}
           \cup {Failure("URLError", "", "Name or service not known"),
                 Failure("ValueError", "", "unknown url type"),
                 Failure("BadStatusLine", "", "''")}

\* ---- new_default_http_client
ImplPycurlBeforeRequests(uf, rq, pc) ==
    IF uf THEN "UrlFetchClient"
    ELSE IF pc THEN "PycurlClient"
    ELSE IF rq THEN "RequestsClient"
    ELSE "Urllib2Client"
Impl(uf, rq, pc) ==
    IF uf THEN "UrlFetchClient"
    ELSE IF rq THEN "RequestsClient"
    ELSE IF pc THEN "PycurlClient"
    ELSE "Urllib2Client"

\* client.request: dispatch on the class of the transport instance
Request(self, method, url, headers, post_data, lib) ==
    CASE self.cls = "UrlFetchClient" ->
           UrlFetchClient_request(self, method, url, headers, post_data, lib)
      [] self.cls = "RequestsClient" ->
           RequestsClient_request(self, method, url, headers, post_data, lib)
      [] self.cls = "PycurlClient" ->
           PycurlClient_request(self, method, url, headers, post_data, lib)
      [] self.cls = "Urllib2Client" ->
           Urllib2Client_request(self, method, url, headers, post_data, lib)

\* ------------------------------------------------------------ json.dumps
Digit(d) ==
    CASE d = 0 -> "0" [] d = 1 -> "1" [] d = 2 -> "2" [] d = 3 -> "3"
      [] d = 4 -> "4" [] d = 5 -> "5" [] d = 6 -> "6" [] d = 7 -> "7"
      [] d = 8 -> "8" [] d = 9 -> "9"

RECURSIVE DumpsInt(_)
DumpsInt(n) == IF n < 10 THEN Digit(n) ELSE DumpsInt(n \div 10) \o Digit(n % 10)

\* the strings of the model hold no character that JSON escapes
DumpsStr(str) == "\"" \o str \o "\""

DumpsInfo(info) ==
    IF "label" \in DOMAIN info
    THEN "{\"label\": " \o DumpsStr(info["label"]) \o "}"
    ELSE "{}"

DumpsEvent(e) ==
    "{\"event_type\": " \o DumpsStr(e["event_type"])
    \o ", \"event_info\": " \o DumpsInfo(e["event_info"])
    \o (IF "event_time" \in DOMAIN e
        THEN ", \"event_time\": " \o DumpsInt(e["event_time"])
        ELSE "")
    \o "}"

RECURSIVE DumpsItems(_)
DumpsItems(events) ==
    IF events = <<>> THEN ""
    ELSE IF Len(events) = 1 THEN DumpsEvent(events[1])
    ELSE DumpsEvent(events[1]) \o ", " \o DumpsItems(Tail(events))

\* json.dumps(args) with the default separators.  A Python 2 dict has no
\* defined key order: the keys are emitted in the order of the dict display.
Dumps(args) ==
    "{\"user_id\": " \o DumpsStr(args.user_id)
    \o ", \"api_key\": " \o DumpsStr(args.api_key)
    \o ", \"app_id\": " \o DumpsStr(args.app_id)
    \o ", \"platform\": " \o DumpsStr(args.platform)
    \o ", \"sdk_version\": " \o DumpsStr(args.sdk_version)
    \o ", \"messages\": [" \o DumpsItems(args.messages) \o "]}"

\* ------------------------------------------------------------------ state
VARIABLES
    env,        \* what is installed in the host environment
    urlfetch,   \* module globals of http_client after import: TRUE when the
    requests,   \*   name is bound to a usable library, FALSE when it is None
    pycurl,
    scriber,    \* the Scriber client object
    instances,  \* the number of transport instances created so far
    net,        \* per library call made so far: the transport it went through
    calls,      \* the number of invocations made
    last        \* the last invocation: its arguments and what it did

vars == <<env, urlfetch, requests, pycurl, scriber, instances, net, calls, last>>

\* new_default_http_client() with n transport instances created before
new_default_http_client_cached(n) ==
    [client |-> HTTPClient(Impl(urlfetch, requests, pycurl), 1),
     instances |-> 1]
new_default_http_client(n) ==
    [client |-> HTTPClient(Impl(urlfetch, requests, pycurl), n + 1),
     instances |-> n + 1]

\* line 67: the single call of client.request
SubmitRetrying(client, headers, post_data, lib) ==
    LET r == Request(client, "POST", SCRIBER_URL, headers, post_data, lib)
    IN IF r.result.kind = "raise" /\ r.result.exc.cls = "APIConnectionError"
       THEN [sent |-> r.sent \o r.sent, result |-> r.result]
       ELSE r
Submit(client, headers, post_data, lib) ==
    Request(client, "POST", SCRIBER_URL, headers, post_data, lib)

\* line 68: the status check
IsFailureStatusNon2xx(code) == code \notin 200..299
IsFailureStatus(code) == code # 200

\* Scriber.record_events; lib is what the HTTP library does with the call
record_events(self, user_id, events, lib) ==
    LET args ==
          [user_id |-> user_id, api_key |-> self.api_key,
           app_id |-> self.app_id, platform |-> PLATFORM,
           sdk_version |-> SDK_VERSION, messages |-> events]
        headers == [k \in {"Content-type", "Accept"} |-> "application/json"]
        post_data == Dumps(args)
        made == new_default_http_client(instances)
        r == Submit(made.client, headers, post_data, lib)
    IN [args |-> args, post_data |-> post_data, client |-> made.client,
        instances |-> made.instances, sent |-> r.sent, transport |-> r.result,
        outcome |->
          IF r.result.kind = "raise" THEN r.result
          ELSE IF IsFailureStatus(r.result.value[2])
               THEN Raise(APIError("There was a problem creating the data"))
               ELSE Return(None)]

\* event[key] = value on a dict
SetItem(event, key, value) ==
    [k \in DOMAIN event \cup {key} |-> IF k = key THEN value ELSE event[k]]

\* line 41: timestamp is not None
IsTruthy(timestamp) == timestamp # None /\ timestamp[1] # 0
IsNotNone(timestamp) == timestamp # None

\* the event that Scriber.record_event builds
NewRecordEvent(label, timestamp) ==
    LET event ==
          [event_type |-> "record_event", event_info |-> [label |-> label]]
    IN IF IsNotNone(timestamp)
       THEN SetItem(event, "event_time", timestamp[1])
       ELSE event

record_event(self, user_id, label, timestamp, lib) ==
    record_events(self, user_id, <<NewRecordEvent(label, timestamp)>>, lib)

\* the events callers hand to record_events
EventPool == {[event_type |-> "app_start", event_info |-> [k \in {} |-> ""]]}
EventSeqs == UNION {[1..n -> EventPool] : n \in 0..MaxEvents}

NoCall ==
    [op |-> "none", user_id |-> "", label |-> "", timestamp |-> None,
     events |-> <<>>, lib |-> Response("", 0),
     run |-> [args |-> <<>>, post_data |-> "", client |-> HTTPClient("", 0),
              instances |-> 0, sent |-> <<>>, transport |-> Return(None),
              outcome |-> Return(None)]]

\* import scriber.http_client; Scriber(api_key, app_id)
InitIn(environments) ==
    /\ env \in environments
    /\ urlfetch = DetectUrlfetch(env.google_appengine)
    /\ requests = DetectRequests(env.requests)
    /\ pycurl = DetectPycurl(env.pycurl)
    /\ scriber = [api_key |-> "key", app_id |-> "app"]
    /\ instances = 0
    /\ net = <<>>
    /\ calls = 0
    /\ last = NoCall

Record(op, user_id, label, timestamp, events, lib, run) ==
    /\ last' = [op |-> op, user_id |-> user_id, label |-> label,
                timestamp |-> timestamp, events |-> events, lib |-> lib,
                run |-> run]
    /\ instances' = run.instances
    /\ net' = net \o [i \in 1..Len(run.sent) |->
                        [instance |-> run.client.id, cls |-> run.client.cls]]
    /\ calls' = calls + 1
    /\ UNCHANGED <<env, urlfetch, requests, pycurl, scriber>>

RecordEvents ==
    /\ calls < MaxCalls
    /\ \E user_id \in UserIds, events \in EventSeqs :
         \E lib \in LibOutcomes(new_default_http_client(instances).client.cls) :
            Record("record_events", user_id, "", None, events, lib,
                   record_events(scriber, user_id, events, lib))

RecordEvent ==
    /\ calls < MaxCalls
    /\ \E user_id \in UserIds, label \in Labels,
          timestamp \in {None} \cup {Some(t) : t \in Timestamps} :
         \E lib \in LibOutcomes(new_default_http_client(instances).client.cls) :
            Record("record_event", user_id, label, timestamp,
                   <<NewRecordEvent(label, timestamp)>>, lib,
                   record_event(scriber, user_id, label, timestamp, lib))

Next == RecordEvents \/ RecordEvent

\* the Event Client in a few environments
Init == InitIn(FewEnvironments)
Spec == Init /\ [][Next]_vars

\* the first invocation after import, in every environment
InitDetect == InitIn(Environments)
NextDetect == calls = 0 /\ Next
SpecDetect == InitDetect /\ [][NextDetect]_vars

\* ----------------------------------------------------------------- claims
Called == calls > 0
Run == last.run
\* the transport returned the pair (body, status)
TransportReturned == Called /\ Run.transport.kind = "return"
Status == Run.transport.value[2]
Body == Run.transport.value[1]
ProblemMessage == "There was a problem creating the data"

\* a version is parsed as lower than 0.8.8: three integer components that
\* precede 0.8.8 (the only integer components of the model are 0 and 8)
ParsedLower(v) ==
    /\ Len(v) = 3
    /\ \A i \in 1..3 : v[i] \in {"0", "8"}
    /\ v[1] = "0"
    /\ (v[2] = "0" \/ v[3] = "0")

ExpectedTransport ==
    IF env.google_appengine THEN "UrlFetchClient"
    ELSE IF env.requests # None /\ ~ParsedLower(env.requests[1])
         THEN "RequestsClient"
    ELSE IF env.pycurl THEN "PycurlClient"
    ELSE "Urllib2Client"

\* C1: whatever is installed, new_default_http_client returns one transport,
\* chosen in the order urlfetch > requests (unless its version is parsed as
\* lower than 0.8.8) > pycurl > urllib2; a missing library never makes it fail.
C1_TransportPriority ==
    Called =>
        /\ Run.client.cls \in
             {"UrlFetchClient", "RequestsClient", "PycurlClient", "Urllib2Client"}
        /\ Run.client.cls = ExpectedTransport

\* requests is installed but too old, and pycurl is chosen instead
C1_Witness ==
    /\ Called
    /\ ~env.google_appengine /\ env.pycurl
    /\ env.requests # None /\ ParsedLower(env.requests[1])
    /\ Run.client.cls = "PycurlClient"

\* C2: with a non-empty event sequence and a transport that returns
\* (body, status), record_events returns iff status is 200, and otherwise
\* raises APIError("There was a problem creating the data").
C2_SuccessIffStatus200 ==
    (TransportReturned /\ last.events # <<>>) =>
        /\ Run.outcome.kind = "return" <=> Status = 200
        /\ Status # 200 =>
             /\ Run.outcome.kind = "raise"
             /\ Run.outcome.exc.cls = "APIError"
             /\ Run.outcome.exc.message = ProblemMessage

\* a 2xx status other than 200 is an APIError
C2_Witness ==
    /\ TransportReturned /\ last.events # <<>>
    /\ Status = 201
    /\ Run.outcome.kind = "raise" /\ Run.outcome.exc.cls = "APIError"

\* C3: every invocation of record_events or record_event makes exactly one
\* transport request, whatever its outcome: nothing is retried.
C3_OneRequestPerInvocation ==
    /\ Called => Len(Run.sent) = 1
    /\ Len(net) = calls

\* an invocation that ended in APIConnectionError made one request
C3_Witness ==
    /\ Called
    /\ Run.outcome.kind = "raise"
    /\ Run.outcome.exc.cls = "APIConnectionError"
    /\ Len(Run.sent) = 1

\* C4: record_events with an empty event sequence sends no transport request.
C4_EmptyBatchSendsNothing ==
    (Called /\ last.op = "record_events" /\ last.events = <<>>) =>
        Run.sent = <<>>

\* C5: whichever transport is used, request returns the pair or raises
\* APIConnectionError: an exception of the underlying library never reaches
\* the caller as it was raised.
C5_FailuresAreNormalized ==
    (Called /\ last.events # <<>> /\ Run.transport.kind = "raise") =>
        /\ Run.transport.exc.cls = "APIConnectionError"
        /\ Run.outcome.exc.cls = "APIConnectionError"

C7_ErrorCarriesResponse ==
    (TransportReturned /\ last.events # <<>> /\ Status # 200) =>
        /\ Run.outcome.exc.cls = "APIError"
        /\ Run.outcome.exc.http_body = Some(Body)
        /\ Run.outcome.exc.http_status = Some(Status)

\* C8: with Urllib2Client an HTTPError is returned as (body, code) of the
\* error response and surfaces as APIError; of the exceptions of urlopen,
\* those that become APIConnectionError are URLError and ValueError only.
C8_Urllib2HTTPErrorIsResponse ==
    (Called /\ Run.client.cls = "Urllib2Client" /\ last.lib.kind = "raise") =>
        /\ last.lib.exc = "HTTPError" =>
             /\ Run.transport = Return(<<last.lib.content, last.lib.status_code>>)
             /\ Run.outcome.kind = "raise"
             /\ Run.outcome.exc.cls = "APIError"
        /\ (Run.transport.kind = "raise"
              /\ Run.transport.exc.cls = "APIConnectionError")
            <=> last.lib.exc \in {"URLError", "ValueError"}

\* an HTTPError 404 surfaced as APIError
C8_Witness ==
    /\ Called /\ Run.client.cls = "Urllib2Client"
    /\ last.lib.exc = "HTTPError" /\ last.lib.status_code = 404
    /\ Run.transport.kind = "return"
    /\ Run.outcome.exc.cls = "APIError"

\* C9: record_event(u, x, t) submits a Batch Request of exactly one message,
\* with event_type "record_event" and event_info {"label": x}; it has no
\* event_time key when t is None and event_time = t otherwise.
C9_SingleRecordEventMessage ==
    (Called /\ last.op = "record_event") =>
        LET messages == Run.args.messages
        IN /\ Len(messages) = 1
           /\ Run.args.user_id = last.user_id
           /\ messages[1]["event_type"] = "record_event"
           /\ messages[1]["event_info"] = [label |-> last.label]
           /\ last.timestamp = None =>
                DOMAIN messages[1] = {"event_type", "event_info"}
           /\ last.timestamp # None =>
                /\ DOMAIN messages[1] = {"event_type", "event_info", "event_time"}
                /\ messages[1]["event_time"] = last.timestamp[1]

\* a timestamp of 0 is provided, and sent
C9_Witness ==
    /\ Called /\ last.op = "record_event"
    /\ last.timestamp = Some(0)
    /\ Run.args.messages[1]["event_time"] = 0

\* C10: whichever transport is selected, the serialized envelope is handed
\* to the HTTP library as the body of the request.
C10_BodyIsSent ==
    (Called /\ last.events # <<>>) =>
        \A i \in 1..Len(Run.sent) :
            /\ Run.sent[i].body = Some(Run.post_data)
            /\ Run.post_data = Dumps(Run.args)
            /\ Run.sent[i].method = "POST"

====
